---- MODULE Spec2Model ----
(***************************************************************************)
(* Model of the React hook useRecordContractPlatform                       *)
(* (react-front/src/hooks/useRecordContractPlatform.ts).                   *)
(*                                                                         *)
(* The hook holds two pieces of React state, isPending and children, and   *)
(* offers two mutating operations (addChild, removeChild) and four read    *)
(* operations (fetchChildren, getChildByRole, getChildrenCount, isChildOf).*)
(* Every operation is an async function: it runs to its first await, is    *)
(* suspended while the transport call is outstanding, and resumes when the *)
(* call completes.  Several invocations may be suspended at once; each one *)
(* occupies a slot of inv.                                                 *)
(*                                                                         *)
(* The hook's inputs (chainId, walletClient, userAddress) are drawn in     *)
(* Init and stay fixed for the behaviour: one behaviour is the life of the *)
(* hook under one wallet session.  The contract behind the transports is   *)
(* modelled as a registry of child lists per owner.                        *)
(***************************************************************************)
EXTENDS Integers, Sequences, FiniteSets, TLC

\* ------------------------------------------------------------------ bounds
\* number of invocations that can be outstanding at once
MaxInv == 2

\* --------------------------------------------------------------- constants
Sepolia == 11155111
Hardhat == 31337
\* network ids the switch of getContractAddress does not list
UnknownIds == {1, 5}

ZeroAddress == "0x0000000000000000000000000000000000000000"
SepoliaContract == "0xB1Db2211cB3bFAe1fB676104cA21f236F832435D"
LoopbackUrl == "http://127.0.0.1:8545"
\* http() without an url: the default public endpoint of the chain
DefaultUrl == "default"

Null == "null"

ChainIds == {Sepolia, Hardhat} \cup UnknownIds
\* the owners the registry knows: U1 is the account that authenticates, U2
\* another owner, queried by explicit owner address only
Users == {"U1", "U2"}
\* the explicit ownerAddress argument of a read operation (Null: omitted)
Owners == {Null, "U2"}
ChildAddrs == {"A", "B"}
Roles == {"r1", "r2"}
\* the (childAddress, role) pairs addChild is invoked with, and the
\* childAddress of removeChild
AddInputs == {<<"A", "r1">>}
RemoveInputs == {"A"}
Hashes == {"0xTX1", "0xTX2"}

\* the three errors thrown by the precondition checks of addChild/removeChild
ConfigurationError == "contract address not set"
ConnectionError == "wallet not connected"
IdentityError == "user address not set"
PreconditionErrors == {ConfigurationError, ConnectionError, IdentityError}
\* errors a transport can fail with
SubmitErrors == {"UserRejected", "RpcError"}
ReadErrors == {"ReadError"}

Slots == 1..MaxInv
Writes == {"addChild", "removeChild"}
Reads == {"fetchChildren", "getChildByRole", "getChildrenCount", "isChildOf"}

VARIABLES chainId, walletClient, userAddress, isPending, children, registry, inv

vars == <<chainId, walletClient, userAddress, isPending, children, registry, inv>>

\* ------------------------------------------------------------------ values
Child(a, r) == [childEOA |-> a, role |-> r]

None == [kind |-> "none"]
Raise(e) == [kind |-> "raise", err |-> e]
Fail(e) == [kind |-> "fail", err |-> e]
HashV(h) == [kind |-> "hash", hash |-> h]
ListV(l) == [kind |-> "list", list |-> l]
AddrV(a) == [kind |-> "addr", addr |-> a]
NumV(n) == [kind |-> "num", num |-> n]
BoolV(b) == [kind |-> "bool", bool |-> b]

Has(s, e) == \E i \in 1..Len(s) : s[i] = e

\* ----------------------------------------------------------------- resolver
\* mutant: the default branch returns the deployed address
getContractAddressDefaultDeployed(c) ==
  CASE c = Hardhat -> ZeroAddress
    [] OTHER -> SepoliaContract

\* mutant: the local network has the deployed address too
getContractAddressHardhatDeployed(c) ==
  CASE c = Sepolia -> SepoliaContract
    [] c = Hardhat -> SepoliaContract
    [] OTHER -> ZeroAddress

getContractAddress(c) ==
  CASE c = Sepolia -> SepoliaContract
    [] c = Hardhat -> ZeroAddress
    [] OTHER -> ZeroAddress

\* mutant: only the Sepolia id selects the public endpoint
getPublicClientSepoliaOnly(c) ==
  [chain |-> IF c = Sepolia THEN "sepolia" ELSE "hardhat",
   transport |-> IF c = Sepolia THEN DefaultUrl ELSE LoopbackUrl]

getPublicClient(c) ==
  [chain |-> IF c = Hardhat THEN "hardhat" ELSE "sepolia",
   transport |-> IF c = Hardhat THEN LoopbackUrl ELSE DefaultUrl]

WriteChain(c) == IF c = Hardhat THEN "hardhat" ELSE "sepolia"

\* ------------------------------------------------------------------ writer
\* mutant: the account check is missing
WritePreconditionNoIdentity(contractAddress, wallet, user) ==
  IF contractAddress = ZeroAddress THEN ConfigurationError
  ELSE IF wallet = Null THEN ConnectionError
  ELSE Null

\* mutant: the wallet is checked before the contract address
WritePreconditionWalletFirst(contractAddress, wallet, user) ==
  IF wallet = Null THEN ConnectionError
  ELSE IF contractAddress = ZeroAddress THEN ConfigurationError
  ELSE IF user = Null THEN IdentityError
  ELSE Null

\* the precondition checks of addChild/removeChild, in the order of the code:
\* the error thrown, or Null when all three hold
WritePrecondition(contractAddress, wallet, user) ==
  IF contractAddress = ZeroAddress THEN ConfigurationError
  ELSE IF wallet = Null THEN ConnectionError
  ELSE IF user = Null THEN IdentityError
  ELSE Null

\* mutant: the transport's error is caught and replaced
SubmitFailedWrapped(e) == Raise("submission failed")

\* try { await writeContract } finally {...}: no catch, the transport's error
\* leaves the function as it came
SubmitFailed(e) == Raise(e)

\* mutant: the flag is not reset on exit
FinallyLeak(p) == p

\* finally { setIsPending(false) }
Finally(p) == FALSE

\* what the invocation settles with once fetchChildren() has settled with
\* outcome f: a rejection of the awaited promise leaves the try block, else
\* "return hash"
WriteSettle(hash, f) == IF f.kind = "raise" THEN f ELSE HashV(hash)

\* ------------------------------------------------------------------ reader
\* mutant: the operands are swapped, userAddress || ownerAddress
ReadTargetUserFirst(owner, user) == IF user # Null THEN user ELSE owner

\* mutant: the owner argument is ignored
ReadTargetUserOnly(owner, user) == user

\* const targetAddress = ownerAddress || userAddress
ReadTarget(owner, user) == IF owner # Null THEN owner ELSE user

\* mutant: the guard is inverted into one that always returns early
ReadShortCircuitAlways(contractAddress, target) == TRUE

\* mutant: the contract address is not tested
ReadShortCircuitNoAddress(contractAddress, target) == target = Null

\* the two early returns of every read operation
ReadShortCircuit(contractAddress, target) ==
  contractAddress = ZeroAddress \/ target = Null

\* the degraded default of a read operation
ReadDefault(op) ==
  CASE op = "fetchChildren" -> ListV(<<>>)
    [] op = "getChildByRole" -> AddrV(Null)
    [] op = "getChildrenCount" -> NumV(0)
    [] op = "isChildOf" -> BoolV(FALSE)

\* mutant: the error is logged and thrown again
ReadCatchRethrow(op, e) == Raise(e)

\* mutant: every catch block returns null
ReadCatchNull(op, e) == AddrV(Null)

\* catch (error) { console.error(...); return <default> }
ReadCatch(op, e) == ReadDefault(op)

\* Number(result) of a bigint: exact below 2^53, and the count of a registry
\* list is far below it
Number(n) == n

\* mutant: the address is passed through, the zero address included
ReadValueRaw(op, resp) ==
  CASE op = "fetchChildren" -> ListV(resp.list)
    [] op = "getChildByRole" -> AddrV(resp.addr)
    [] op = "getChildrenCount" -> NumV(Number(resp.num))
    [] op = "isChildOf" -> BoolV(resp.bool)

\* the value a read operation returns for the decoded result resp
ReadValue(op, resp) ==
  CASE op = "fetchChildren" -> ListV(resp.list)
    [] op = "getChildByRole" ->
         AddrV(IF resp.addr = ZeroAddress THEN Null ELSE resp.addr)
    [] op = "getChildrenCount" -> NumV(Number(resp.num))
    [] op = "isChildOf" -> BoolV(resp.bool)

\* the outcome of a read operation whose transport call ended with resp
ReadOutcome(op, resp) ==
  IF resp.kind = "fail" THEN ReadCatch(op, resp.err) ELSE ReadValue(op, resp)

\* mutant: a list is stored only while the cache is empty
CacheAfterReadFirstWins(op, resp, cache) ==
  IF op = "fetchChildren" /\ resp.kind = "list" /\ cache = <<>>
  THEN resp.list ELSE cache

\* mutant: the catch block of fetchChildren empties the list
CacheAfterReadClearOnFail(op, resp, cache) ==
  IF op # "fetchChildren" THEN cache
  ELSE IF resp.kind = "list" THEN resp.list ELSE <<>>

\* mutant: the result is returned but not stored
CacheAfterReadKeep(op, resp, cache) == cache

\* setChildren(result): only fetchChildren, only on the success path
CacheAfterRead(op, resp, cache) ==
  IF op = "fetchChildren" /\ resp.kind = "list" THEN resp.list ELSE cache

\* ---------------------------------------------------------------- contract
\* the registry contract behind the ABI: unique accounts per owner
HasChild(list, a) == \E i \in 1..Len(list) : list[i].childEOA = a

ContractAdd(list, a, r) ==
  IF HasChild(list, a) THEN list ELSE Append(list, Child(a, r))

ContractRemove(list, a) ==
  SelectSeq(list, LAMBDA c : c.childEOA # a)

ContractWrite(op, list, a, r) ==
  IF op = "addChild" THEN ContractAdd(list, a, r) ELSE ContractRemove(list, a)

RECURSIVE FirstWithRole(_, _)
FirstWithRole(list, r) ==
  IF list = <<>> THEN ZeroAddress
  ELSE IF Head(list).role = r THEN Head(list).childEOA
  ELSE FirstWithRole(Tail(list), r)

\* the decoded result of readContract for entry point op
ContractRead(op, list, a, r) ==
  CASE op = "fetchChildren" -> ListV(list)
    [] op = "getChildByRole" -> AddrV(FirstWithRole(list, r))
    [] op = "getChildrenCount" -> NumV(Len(list))
    [] op = "isChildOf" -> BoolV(HasChild(list, a))

\* ------------------------------------------------------------- invocations
IdleInv ==
  [op |-> "none", pc |-> "idle", child |-> Null, role |-> Null,
   owner |-> Null, target |-> Null, contractAddress |-> Null,
   chain |-> Null, hash |-> Null, resp |-> None, result |-> None,
   log |-> <<>>, solo |-> TRUE]

InFlight(i) == i.pc \in {"submit", "read", "served"}
Settled(i) == i.pc \in {"returned", "raised"}
Free(s) == ~InFlight(inv[s])
Alone(s) == \A t \in Slots \ {s} : ~InFlight(inv[t])

\* the read operation an invocation performs: a write performs fetchChildren
InnerOp(i) == IF i.op \in Writes THEN "fetchChildren" ELSE i.op

\* slot s takes the suspended invocation i; every invocation that is
\* outstanding at that moment now overlaps with another
Suspend(s, i) ==
  [t \in Slots |->
     IF t = s THEN [i EXCEPT !.solo = (i.op \in Writes => Alone(s))]
     ELSE IF InFlight(inv[t]) /\ inv[t].op \in Writes
       THEN [inv[t] EXCEPT !.solo = FALSE]
     ELSE inv[t]]

Settle(i, res, events) ==
  [i EXCEPT !.pc = IF res.kind = "raise" THEN "raised" ELSE "returned",
            !.result = res,
            !.log = i.log \o events]

Init ==
  /\ chainId \in ChainIds
  /\ walletClient \in {Null, "wallet"}
  /\ userAddress \in {Null, "U1"}
  /\ isPending = FALSE
  /\ children = <<>>
  /\ registry = [u \in Users |-> IF u = "U2" THEN <<Child("B", "r2")>> ELSE <<>>]
  /\ inv = [s \in Slots |-> IdleInv]

\* addChild/removeChild up to the first await
WriteStart(s, op, a, r) ==
  /\ Free(s)
  /\ LET contractAddress == getContractAddress(chainId)
         e == WritePrecondition(contractAddress, walletClient, userAddress)
         i == [IdleInv EXCEPT !.op = op, !.child = a, !.role = r,
                              !.contractAddress = contractAddress]
     IN IF e # Null
        THEN /\ inv' = [inv EXCEPT ![s] = Settle(i, Raise(e), <<>>)]
             /\ UNCHANGED isPending
        ELSE /\ isPending' = TRUE
             /\ inv' = Suspend(s, [i EXCEPT !.pc = "submit",
                                            !.target = userAddress,
                                            !.chain = WriteChain(chainId),
                                            !.log = <<"setPending", "submit">>])
  /\ UNCHANGED <<chainId, walletClient, userAddress, children, registry>>

addChild(s, a, r) == WriteStart(s, "addChild", a, r)

removeChild(s, a) == WriteStart(s, "removeChild", a, Null)

\* mutant: a rejected submission empties the list
SubmitFailClearsCache(s) ==
  /\ inv[s].pc = "submit"
  /\ \E e \in SubmitErrors :
       inv' = [inv EXCEPT ![s] =
                 Settle([inv[s] EXCEPT !.resp = Fail(e)], SubmitFailed(e),
                        <<"submitFail", "release">>)]
  /\ isPending' = Finally(isPending)
  /\ children' = <<>>
  /\ UNCHANGED <<chainId, walletClient, userAddress, registry>>

\* the signing transport rejects the submission
SubmitFail(s) ==
  /\ inv[s].pc = "submit"
  /\ \E e \in SubmitErrors :
       inv' = [inv EXCEPT ![s] =
                 Settle([inv[s] EXCEPT !.resp = Fail(e)], SubmitFailed(e),
                        <<"submitFail", "release">>)]
  /\ isPending' = Finally(isPending)
  /\ UNCHANGED <<chainId, walletClient, userAddress, children, registry>>

\* the signing transport returns a transaction hash; the transaction is
\* applied by the contract or not (reverted, dropped, not yet mined); the
\* invocation goes on to fetchChildren()
SubmitOk(s) ==
  /\ inv[s].pc = "submit"
  /\ \E h \in Hashes, applied \in BOOLEAN :
       LET i == inv[s]
           target == ReadTarget(Null, i.target)
           j == [i EXCEPT !.hash = h, !.log = i.log \o <<"submitOk">>]
       IN /\ registry' =
               IF applied
               THEN [registry EXCEPT ![i.target] =
                       ContractWrite(i.op, registry[i.target], i.child, i.role)]
               ELSE registry
          /\ IF ReadShortCircuit(i.contractAddress, target)
             THEN /\ inv' = [inv EXCEPT ![s] =
                       Settle(j, WriteSettle(h, ReadDefault("fetchChildren")),
                              <<"release">>)]
                  /\ isPending' = Finally(isPending)
             ELSE /\ inv' = [inv EXCEPT ![s] =
                       [j EXCEPT !.pc = "read", !.target = target,
                                 !.log = j.log \o <<"read">>]]
                  /\ UNCHANGED isPending
  /\ UNCHANGED <<chainId, walletClient, userAddress, children>>

\* a read operation up to its await
ReadStart(s, op, a, r, owner) ==
  /\ Free(s)
  /\ LET contractAddress == getContractAddress(chainId)
         target == ReadTarget(owner, userAddress)
         i == [IdleInv EXCEPT !.op = op, !.child = a, !.role = r,
                              !.owner = owner,
                              !.contractAddress = contractAddress]
     IN IF ReadShortCircuit(contractAddress, target)
        THEN inv' = [inv EXCEPT ![s] = Settle(i, ReadDefault(op), <<>>)]
        ELSE inv' = Suspend(s, [i EXCEPT !.pc = "read", !.target = target,
                                         !.chain = getPublicClient(chainId).chain,
                                         !.log = <<"read">>])
  /\ UNCHANGED <<chainId, walletClient, userAddress, isPending, children, registry>>

fetchChildren(s, owner) == ReadStart(s, "fetchChildren", Null, Null, owner)

getChildByRole(s, r, owner) == ReadStart(s, "getChildByRole", Null, r, owner)

getChildrenCount(s, owner) == ReadStart(s, "getChildrenCount", Null, Null, owner)

isChildOf(s, a, owner) == ReadStart(s, "isChildOf", a, Null, owner)

\* the read transport evaluates the call against the contract, or fails
ServeRead(s) ==
  /\ inv[s].pc = "read"
  /\ \E ok \in BOOLEAN, e \in ReadErrors :
       LET i == inv[s]
           resp == IF ok
                   THEN ContractRead(InnerOp(i), registry[i.target], i.child, i.role)
                   ELSE Fail(e)
       IN inv' = [inv EXCEPT ![s] = [i EXCEPT !.pc = "served", !.resp = resp]]
  /\ UNCHANGED <<chainId, walletClient, userAddress, isPending, children, registry>>

\* mutant: the finally block sits in the read operations too
CompleteReadReleases(s) ==
  /\ inv[s].pc = "served"
  /\ LET i == inv[s]
         op == InnerOp(i)
         f == ReadOutcome(op, i.resp)
         ev == IF i.resp.kind = "fail" THEN <<"readFail">> ELSE <<"readOk">>
     IN /\ children' = CacheAfterRead(op, i.resp, children)
        /\ isPending' = Finally(isPending)
        /\ IF i.op \in Writes
           THEN inv' = [inv EXCEPT ![s] =
                     Settle(i, WriteSettle(i.hash, f), ev \o <<"release">>)]
           ELSE inv' = [inv EXCEPT ![s] = Settle(i, f, ev)]
  /\ UNCHANGED <<chainId, walletClient, userAddress, registry>>

\* the awaited readContract settles and the invocation runs to its end
CompleteRead(s) ==
  /\ inv[s].pc = "served"
  /\ LET i == inv[s]
         op == InnerOp(i)
         f == ReadOutcome(op, i.resp)
         ev == IF i.resp.kind = "fail" THEN <<"readFail">> ELSE <<"readOk">>
     IN /\ children' = CacheAfterRead(op, i.resp, children)
        /\ IF i.op \in Writes
           THEN /\ inv' = [inv EXCEPT ![s] =
                     Settle(i, WriteSettle(i.hash, f), ev \o <<"release">>)]
                /\ isPending' = Finally(isPending)
           ELSE /\ inv' = [inv EXCEPT ![s] = Settle(i, f, ev)]
                /\ UNCHANGED isPending
  /\ UNCHANGED <<chainId, walletClient, userAddress, registry>>

Next ==
  \/ \E s \in Slots, x \in AddInputs : addChild(s, x[1], x[2])
  \/ \E s \in Slots, a \in RemoveInputs : removeChild(s, a)
  \/ \E s \in Slots : SubmitFail(s)
  \/ \E s \in Slots : SubmitOk(s)
  \/ \E s \in Slots, o \in Owners : fetchChildren(s, o)
  \/ \E s \in Slots, r \in Roles, o \in Owners : getChildByRole(s, r, o)
  \/ \E s \in Slots, o \in Owners : getChildrenCount(s, o)
  \/ \E s \in Slots, a \in ChildAddrs, o \in Owners : isChildOf(s, a, o)
  \/ \E s \in Slots : ServeRead(s)
  \/ \E s \in Slots : CompleteRead(s)

Spec == Init /\ [][Next]_vars

\* the transport call that the invocation in slot s awaits makes a step
Transport(s) == SubmitFail(s) \/ SubmitOk(s) \/ ServeRead(s) \/ CompleteRead(s)

\* every call handed to a transport completes, with a result or a failure
FairSpec == Init /\ [][Next]_vars /\ \A s \in Slots : WF_vars(Transport(s))

\* ================================================================== claims
IsWrite(i) == i.op \in Writes
IsRead(i) == i.op \in Reads
WriteInFlight == \E s \in Slots : IsWrite(inv[s]) /\ InFlight(inv[s])
ContractUnset == getContractAddress(chainId) = ZeroAddress
PreconditionUnmet == ContractUnset \/ walletClient = Null \/ userAddress = Null
\* slot s takes a new addChild/removeChild invocation in this step
WriteInvoked(s) == ~InFlight(inv[s]) /\ inv'[s] # inv[s] /\ IsWrite(inv'[s])
IssuedCall(i) == Has(i.log, "submit") \/ Has(i.log, "read")

\* C1: an addChild/removeChild invoked with an unmet precondition raises a
\* precondition error without issuing a submission or a read call, and
\* leaves isPending and children as they were.
C1_RejectedWriteIsInert ==
  [][\A s \in Slots :
       (WriteInvoked(s) /\ PreconditionUnmet) =>
         /\ inv'[s].pc = "raised"
         /\ inv'[s].result.kind = "raise"
         /\ inv'[s].result.err \in PreconditionErrors
         /\ ~IssuedCall(inv'[s])
         /\ isPending' = isPending
         /\ children' = children]_vars

\* a write rejected for the missing account, with a cache that an earlier
\* fetchChildren had filled
C1_Witness ==
  /\ userAddress = Null /\ walletClient # Null /\ ~ContractUnset
  /\ children # <<>>
  /\ \E s \in Slots : IsWrite(inv[s]) /\ inv[s].pc = "raised"

\* C2: the error of a rejected addChild/removeChild is that of the first
\* unmet precondition in the order contract address, wallet, account; with
\* all three met no precondition error is raised.
C2_FirstUnmetPrecondition ==
  \A s \in Slots :
    (IsWrite(inv[s]) /\ inv[s].pc # "idle") =>
      IF inv[s].contractAddress = ZeroAddress
        THEN inv[s].result = Raise(ConfigurationError)
      ELSE IF walletClient = Null
        THEN inv[s].result = Raise(ConnectionError)
      ELSE IF userAddress = Null
        THEN inv[s].result = Raise(IdentityError)
      ELSE ~(inv[s].result.kind = "raise"
             /\ inv[s].result.err \in PreconditionErrors)

\* contract address and wallet both unmet: the contract address decides
C2_Witness ==
  /\ ContractUnset /\ walletClient = Null /\ userAddress # Null
  /\ \E s \in Slots : IsWrite(inv[s]) /\ inv[s].result = Raise(ConfigurationError)

\* C3: isPending is true exactly when some addChild/removeChild invocation
\* has passed its preconditions and has not settled.
C3_PendingIffWriteInFlight == isPending <=> WriteInFlight

\* C4: a failed submission raises exactly the transport's error, and with
\* no addChild/removeChild outstanding isPending is false.
C4_SubmissionErrorUnmodified ==
  \A s \in Slots :
    (IsWrite(inv[s]) /\ Has(inv[s].log, "submitFail")) =>
      /\ inv[s].pc = "raised"
      /\ inv[s].resp.kind = "fail"
      /\ inv[s].result = Raise(inv[s].resp.err)
      /\ inv[s].result.err \in SubmitErrors
      /\ (~WriteInFlight => ~isPending)

C4_Witness ==
  /\ ~WriteInFlight /\ ~isPending
  /\ \E s \in Slots :
       /\ IsWrite(inv[s]) /\ Has(inv[s].log, "submitFail")
       /\ inv[s].result = Raise("RpcError")

\* C5: when every transport call completes, every addChild/removeChild that
\* set isPending settles, and isPending is false on its exit, whichever way
\* it exits.
C5_PendingReleased ==
  /\ \A s \in Slots :
       (IsWrite(inv[s]) /\ InFlight(inv[s])) ~> (Settled(inv[s]) /\ ~isPending)
  /\ [](~WriteInFlight => ~isPending)

\* a write that has settled after a failed refresh, with the flag released
C5_Witness ==
  /\ ~isPending
  /\ \E s \in Slots :
       IsWrite(inv[s]) /\ Settled(inv[s]) /\ Has(inv[s].log, "readFail")

\* slot s holds a write that returns its transaction hash in this step
WriteReturns(s) ==
  IsWrite(inv[s]) /\ InFlight(inv[s]) /\ inv'[s].pc = "returned"
HasEntry(list, a, r) == \E i \in 1..Len(list) : list[i] = Child(a, r)

C7_RaisesOnlyBeforeRefresh ==
  \A s \in Slots :
    (IsWrite(inv[s]) /\ Settled(inv[s])) =>
      /\ (Has(inv[s].log, "submitOk") =>
            inv[s].pc = "returned" /\ inv[s].result = HashV(inv[s].hash))
      /\ (inv[s].pc = "raised" =>
            \/ ~IssuedCall(inv[s]) /\ inv[s].result.err \in PreconditionErrors
            \/ Has(inv[s].log, "submitFail") /\ ~Has(inv[s].log, "read"))

C7_Witness ==
  \E s \in Slots :
    /\ IsWrite(inv[s]) /\ inv[s].pc = "returned"
    /\ Has(inv[s].log, "readFail")
    /\ inv[s].result = HashV(inv[s].hash)

\* the degraded default of each read operation, as the specification lists
\* them
DegradedDefault(op) ==
  CASE op = "fetchChildren" -> ListV(<<>>)
    [] op = "getChildByRole" -> AddrV(Null)
    [] op = "getChildrenCount" -> NumV(0)
    [] op = "isChildOf" -> BoolV(FALSE)

\* C8: no read operation raises; one whose transport call failed returns
\* its degraded default.
C8_ReadsNeverRaise ==
  \A s \in Slots :
    IsRead(inv[s]) =>
      /\ inv[s].pc # "raised"
      /\ inv[s].result.kind # "raise"
      /\ (Settled(inv[s]) /\ inv[s].resp.kind = "fail" =>
            inv[s].result = DegradedDefault(inv[s].op))

C8_Witness ==
  \E s \in Slots :
    /\ inv[s].op = "getChildrenCount" /\ inv[s].pc = "returned"
    /\ inv[s].resp.kind = "fail"
    /\ inv[s].result = NumV(0)

\* C9: a read operation invoked with the contract address unset, or with
\* neither an explicit owner nor an authenticated account, returns its
\* degraded default and issues no call to the read transport.
C9_ReadShortCircuits ==
  \A s \in Slots :
    (/\ IsRead(inv[s])
     /\ \/ inv[s].contractAddress = ZeroAddress
        \/ inv[s].owner = Null /\ userAddress = Null) =>
      /\ inv[s].pc = "returned"
      /\ inv[s].result = DegradedDefault(inv[s].op)
      /\ ~IssuedCall(inv[s])
      /\ inv[s].resp = None

\* the address is configured, but there is nobody to query for
C9_Witness ==
  /\ ~ContractUnset /\ userAddress = Null
  /\ \E s \in Slots :
       /\ inv[s].op = "isChildOf" /\ inv[s].owner = Null
       /\ inv[s].result = BoolV(FALSE)

\* C10: every network id resolves to an address, the same one at every
\* resolution, and an id the table does not list resolves to the zero
\* address.
C10_ResolutionTotal ==
  \A s \in Slots :
    inv[s].pc # "idle" =>
      /\ inv[s].contractAddress \in {SepoliaContract, ZeroAddress}
      /\ (chainId \notin {Sepolia, Hardhat} =>
            inv[s].contractAddress = ZeroAddress)
      /\ \A t \in Slots :
           inv[t].pc # "idle" => inv[t].contractAddress = inv[s].contractAddress

C10_Witness ==
  /\ chainId \in UnknownIds
  /\ \A s \in Slots : inv[s].pc # "idle" /\ inv[s].contractAddress = ZeroAddress

\* C11: getChildByRole returns null when the read transport returned the
\* zero address, and otherwise the address the transport returned.
C11_ZeroAddressIsNull ==
  \A s \in Slots :
    (inv[s].op = "getChildByRole" /\ inv[s].resp.kind = "addr"
       /\ Settled(inv[s])) =>
      /\ inv[s].pc = "returned"
      /\ inv[s].result.kind = "addr"
      /\ (inv[s].resp.addr = ZeroAddress => inv[s].result.addr = Null)
      /\ (inv[s].resp.addr # ZeroAddress =>
            inv[s].result.addr = inv[s].resp.addr)

\* one lookup answered with the zero address, another with an address
C11_Witness ==
  \E s, t \in Slots :
    /\ inv[s].op = "getChildByRole" /\ inv[s].pc = "returned"
    /\ inv[s].resp = AddrV(ZeroAddress) /\ inv[s].result = AddrV(Null)
    /\ inv[t].op = "getChildByRole" /\ inv[t].pc = "returned"
    /\ inv[t].resp = AddrV("B") /\ inv[t].result = AddrV("B")

\* the events of an addChild/removeChild that passed its preconditions, in
\* the order of the code
WriteEvents(tail) == <<"setPending", "submit">> \o tail
OrderlyLogs ==
  {WriteEvents(<<>>),
   WriteEvents(<<"submitFail", "release">>),
   WriteEvents(<<"submitOk", "read">>),
   WriteEvents(<<"submitOk", "read", "readOk", "release">>),
   WriteEvents(<<"submitOk", "read", "readFail", "release">>)}
Count(log, e) == Cardinality({i \in 1..Len(log) : log[i] = e})

\* C12: an addChild/removeChild that passed its preconditions sets
\* isPending, then issues one submission, then - only once the submission
\* has succeeded - one list fetch, and returns the hash only once that fetch
\* has completed; neither call is issued a second time.
C12_WriteEventOrder ==
  \A s \in Slots :
    (IsWrite(inv[s]) /\ inv[s].log # <<>>) =>
      /\ inv[s].log \in OrderlyLogs
      /\ Count(inv[s].log, "submit") = 1
      /\ Count(inv[s].log, "read") <= 1
      /\ (inv[s].pc = "submit" <=> Len(inv[s].log) = 2)
      /\ (inv[s].pc \in {"read", "served"} =>
            inv[s].hash \in Hashes /\ Count(inv[s].log, "read") = 1)
      /\ (inv[s].pc = "returned" =>
            /\ Len(inv[s].log) = 6
            /\ inv[s].log[3] = "submitOk" /\ inv[s].log[4] = "read"
            /\ inv[s].resp # None)
      /\ (InFlight(inv[s]) => inv[s].result = None)

C12_Witness ==
  \E s \in Slots :
    /\ IsWrite(inv[s]) /\ inv[s].pc = "returned"
    /\ inv[s].log =
         <<"setPending", "submit", "submitOk", "read", "readOk", "release">>

\* slot s holds an invocation whose fetchChildren read completes in this step
ListFetchCompletes(s) ==
  /\ inv[s].pc = "served" /\ Settled(inv'[s])
  /\ inv[s].op \in Writes \cup {"fetchChildren"}

\* C13: children changes only when the read of a fetchChildren completes
\* with a list, and then becomes that list, which fetchChildren also
\* returns; every other step leaves it alone, a failed or short-circuited
\* fetchChildren, the other read operations and the submission included.
C13_CacheWrittenOnlyByListFetch ==
  [][
      /\ children' # children =>
           \E s \in Slots :
             ListFetchCompletes(s) /\ inv[s].resp.kind = "list"
      /\ \A s \in Slots :
           (ListFetchCompletes(s) /\ inv[s].resp.kind = "list") =>
             /\ children' = inv[s].resp.list
             /\ (inv[s].op = "fetchChildren" =>
                   inv'[s].result = ListV(children'))
      /\ \A s \in Slots :
           (IsRead(inv'[s]) /\ inv'[s] # inv[s] /\ inv'[s].pc = "returned"
              /\ (inv[s].pc # "served" \/ inv[s].resp.kind = "fail")) =>
             inv'[s].result = DegradedDefault(inv'[s].op)
    ]_vars

\* a fetchChildren that failed and returned the empty list, with the cache
\* still holding what an earlier fetch stored
C13_Witness ==
  /\ children # <<>>
  /\ \E s \in Slots :
       /\ inv[s].op = "fetchChildren" /\ inv[s].pc = "returned"
       /\ inv[s].resp.kind = "fail" /\ inv[s].result = ListV(<<>>)

\* C14: isPending is written by addChild and removeChild only: a step of a
\* read operation (its invocation, its transport call, its completion, also
\* while a write is outstanding) leaves it, and every step that changes it
\* is a step of a write.
C14_PendingWrittenOnlyByWrites ==
  [][
      /\ \A s \in Slots :
           (IsRead(inv'[s]) /\ inv'[s] # inv[s]) => isPending' = isPending
      /\ isPending' # isPending =>
           \E s \in Slots :
             /\ IsWrite(inv'[s]) /\ inv'[s].pc # inv[s].pc
             /\ inv'[s].pc \in {"submit", "returned", "raised"}
    ]_vars

\* a read that completed while a write is outstanding
C14_Witness ==
  /\ isPending /\ WriteInFlight
  /\ \E s \in Slots :
       IsRead(inv[s]) /\ inv[s].pc = "returned" /\ Has(inv[s].log, "readOk")

ListFetchInFlight ==
  \E s \in Slots :
    /\ InFlight(inv[s]) /\ Has(inv[s].log, "read")
    /\ inv[s].op \in Writes \cup {"fetchChildren"}
\* the owner a list fetch is invoked for
FetchOwner(i) ==
  IF IsRead(i) /\ i.owner # Null THEN i.owner ELSE userAddress

C16_LastRefreshWins ==
  [][\A s \in Slots :
       /\ (WriteInvoked(s) /\ ~PreconditionUnmet) =>
            inv'[s].pc = "submit" /\ isPending'
       /\ (WriteReturns(s) /\ inv[s].resp.kind = "list") =>
            children' = inv[s].resp.list]_vars

\* two overlapped writes have returned, every invocation has settled, and
\* the cache is not the contract's list for the authenticated account
C16_Witness ==
  /\ \A s \in Slots :
       /\ IsWrite(inv[s]) /\ inv[s].pc = "returned" /\ ~inv[s].solo
       /\ Has(inv[s].log, "readOk")
  /\ ~isPending /\ userAddress # Null
  /\ children # registry[userAddress]

\* C17: a read operation queries the contract for the explicit owner when
\* one is given, also with nobody authenticated, and for the authenticated
\* account otherwise; the refresh of addChild/removeChild queries the
\* authenticated account.
C17_QueriedOwner ==
  \A s \in Slots :
    /\ (IsRead(inv[s]) /\ inv[s].owner # Null /\ ~ContractUnset) =>
         /\ Has(inv[s].log, "read")
         /\ inv[s].target = inv[s].owner
    /\ (IsRead(inv[s]) /\ inv[s].owner = Null /\ Has(inv[s].log, "read")) =>
         inv[s].target = userAddress /\ userAddress # Null
    /\ (IsWrite(inv[s]) /\ Has(inv[s].log, "read")) =>
         inv[s].target = userAddress /\ userAddress # Null
    /\ (inv[s].op = "fetchChildren" /\ inv[s].owner = "U2"
          /\ inv[s].resp.kind = "list") =>
         inv[s].resp.list = registry["U2"]

\* fetchChildren(U2) filled the cache, then a write's refresh replaced it by
\* the list of the authenticated account
C17_Witness ==
  /\ userAddress # Null
  /\ children = registry[userAddress] /\ children # registry["U2"]
  /\ \E s, t \in Slots :
       /\ inv[s].op = "fetchChildren" /\ inv[s].owner = "U2"
       /\ inv[s].pc = "returned" /\ inv[s].result = ListV(registry["U2"])
       /\ IsWrite(inv[t]) /\ inv[t].pc = "returned" /\ inv[t].solo
       /\ Has(inv[t].log, "readOk")

PublicSepolia == [chain |-> "sepolia", transport |-> DefaultUrl]
LocalHardhat == [chain |-> "hardhat", transport |-> LoopbackUrl]

\* C18 as stated: the endpoint of a non-local network id is parameterized by
\* the id, so another non-local id resolves to another network.
C18_DistinctIdsDistinctNetworks ==
  chainId # Hardhat =>
    \A c \in ChainIds \ {Hardhat, chainId} :
      getPublicClient(c) # getPublicClient(chainId)

\* C18 amended: resolution is total; the local id resolves to the hardhat
\* chain on the loopback endpoint and every other id, recognized or not, to
\* one and the same configuration, the sepolia chain on its default public
\* endpoint; the chain named in a submission is chosen the same way, and an
\* invocation that issued a call has the chain so resolved.
C18_TransportResolution ==
  /\ getPublicClient(chainId) =
       IF chainId = Hardhat THEN LocalHardhat ELSE PublicSepolia
  /\ \A c \in ChainIds :
       /\ getPublicClient(c) \in {LocalHardhat, PublicSepolia}
       /\ getPublicClient(c) = LocalHardhat <=> c = Hardhat
       /\ WriteChain(c) = IF c = Hardhat THEN "hardhat" ELSE "sepolia"
  /\ \A s \in Slots :
       inv[s].chain # Null =>
         inv[s].chain = IF chainId = Hardhat THEN "hardhat" ELSE "sepolia"

\* a read and a submission were handed to the resolved transports
C18_Witness ==
  /\ getPublicClient(chainId) = PublicSepolia
  /\ \E s, t \in Slots :
       /\ IsRead(inv[s]) /\ Has(inv[s].log, "read")
       /\ inv[s].chain = "sepolia"
       /\ IsWrite(inv[t]) /\ Has(inv[t].log, "submit")
       /\ inv[t].chain = "sepolia"

\* C19: a submission or a read is issued only under network id 11155111;
\* under 31337 and under an unrecognized id every addChild/removeChild
\* raises the configuration error, every read operation returns its degraded
\* default, no chain (so no loopback endpoint) is resolved, and isPending
\* and children keep their initial values.
C19_CallsOnlyOnSepolia ==
  /\ \A s \in Slots :
       (IssuedCall(inv[s]) \/ InFlight(inv[s]) \/ inv[s].chain # Null) =>
         chainId = Sepolia /\ inv[s].chain = "sepolia"
  /\ chainId # Sepolia =>
       /\ ~isPending /\ children = <<>>
       /\ \A s \in Slots :
            /\ IsWrite(inv[s]) =>
                 /\ inv[s].pc = "raised"
                 /\ inv[s].result = Raise(ConfigurationError)
            /\ IsRead(inv[s]) =>
                 /\ inv[s].pc = "returned"
                 /\ inv[s].result = DegradedDefault(inv[s].op)

\* under the local network id, with wallet and account present, a write was
\* rejected and a read returned its default
C19_Witness ==
  /\ chainId = Hardhat /\ walletClient # Null /\ userAddress # Null
  /\ \E s, t \in Slots :
       /\ IsWrite(inv[s]) /\ inv[s].pc = "raised"
       /\ IsRead(inv[t]) /\ inv[t].pc = "returned" /\ inv[t].owner # Null

\* C20: an addChild/removeChild whose submission fails has issued no list
\* fetch, and neither its entry into the submission nor its failure changes
\* children or the contract: it sets isPending on entry and clears it when
\* it fails.
C20_FailedSubmissionFrame ==
  [][\A s \in Slots :
       /\ (WriteInvoked(s) /\ inv'[s].pc = "submit") =>
            isPending' /\ children' = children /\ registry' = registry
       /\ (inv[s].pc = "submit" /\ inv'[s].pc = "raised") =>
            /\ children' = children /\ registry' = registry
            /\ ~isPending'
            /\ ~Has(inv'[s].log, "read")
            /\ inv'[s].result.kind = "raise"
            /\ inv'[s].result.err \in SubmitErrors]_vars

\* a submission failed while the cache held a list
C20_Witness ==
  /\ children # <<>>
  /\ \E s \in Slots :
       /\ IsWrite(inv[s]) /\ inv[s].pc = "raised"
       /\ Has(inv[s].log, "submitFail") /\ ~Has(inv[s].log, "read")

====
